---- MODULE Spec2Model ----
(***************************************************************************)
(* Backend factory registry (internal/backend/location/registry.go) and    *)
(* the object-store filesystem adapter (internal/fs/fs_s3.go), in its two  *)
(* variants: s3FS (bucket fixed at construction) and FS3 (bucket taken     *)
(* from the first path segment).                                           *)
(*                                                                         *)
(* Strings are sequences of one-character strings, so that the prefix,     *)
(* suffix, trim and cut operations of the code are computed, not assumed.  *)
(***************************************************************************)
EXTENDS Naturals, Integers, Sequences, FiniteSets, TLC

VARIABLES
    factories,   \* Registry.factories: scheme -> Factory (a Go map)
    succeeded,   \* history: the factories whose Register call returned
    regOp,       \* history: the last registry call and what it did
    store,       \* the bucket: object key -> [size, modTime, content]
    h,           \* the s3File handle under observation (its filesystem: h.variant)
    ch,          \* the listing sequence of h.list and its producer
    pc,          \* position of the caller inside Readdir / Close
    files,       \* Readdir's local slice while it runs
    ret,         \* what the last filesystem call returned
    hist         \* history: requests issued and bytes delivered

vars == <<factories, succeeded, regOp, store, h, ch, pc, files, ret, hist>>

regVars == <<factories, succeeded, regOp>>
fsVars == <<store, h, ch, pc, files, ret, hist>>

Nil == "nil"

\* The nil Factory (the zero value of the interface).
NilFactory == [nil |-> TRUE]

(***************************************************************************)
(* Bounds of the model.                                                    *)
(***************************************************************************)
NumSchemes == 3
FactoriesPerScheme == 2
MaxKeyLen == 3     \* longest object key of the bucket
MaxObjects == 2    \* most objects in a bucket of Stores
MaxPathLen == 3    \* longest path given to Open / Stat
MaxN == 2          \* largest n given to Readdir
MaxSize == 3       \* largest object content, in bytes
MaxBuf == 2        \* largest buffer given to Read

(***************************************************************************)
(* Registry                                                                *)
(***************************************************************************)
Schemes == 1..NumSchemes

\* A Factory value: an implementation registered under a scheme.
Factories == [scheme : Schemes, impl : 1..FactoriesPerScheme]

Scheme(factory) == factory.scheme

\* A Go map read: the zero value (nil) for a key that is not present.
MapGet(m, k) == IF k \in DOMAIN m THEN m[k] ELSE NilFactory

MapPut(m, k, v) == [x \in DOMAIN m \cup {k} |-> IF x = k THEN v ELSE m[x]]

NewRegistry == <<>>

\* Register without the duplicate test: the later factory replaces the first.
RegisterOverwrite(m, factory) ==
    [factories |-> MapPut(m, Scheme(factory), factory), panicked |-> FALSE]

\* Registry.Register: panic("duplicate backend") when the scheme is present,
\* else store the factory under its scheme.
Register(m, factory) ==
    IF MapGet(m, Scheme(factory)) # NilFactory
    THEN [factories |-> m, panicked |-> TRUE]
    ELSE [factories |-> MapPut(m, Scheme(factory), factory), panicked |-> FALSE]

\* A lookup that falls back to some registered factory when the scheme is absent.
LookupFallback(m, scheme) ==
    [factories |-> m,
     result |-> IF scheme \in DOMAIN m THEN m[scheme]
                ELSE IF DOMAIN m # {} THEN m[CHOOSE k \in DOMAIN m : TRUE] ELSE NilFactory,
     panicked |-> FALSE]

\* Registry.Lookup: a map read.
Lookup(m, scheme) ==
    [factories |-> m, result |-> MapGet(m, scheme), panicked |-> FALSE]

NoRegOp == [op |-> "none"]

RegisterCall ==
    \E factory \in Factories :
        LET r == Register(factories, factory) IN
        /\ factories' = r.factories
        /\ succeeded' = IF r.panicked THEN succeeded ELSE succeeded \cup {factory}
        /\ regOp' = [op |-> "Register", factory |-> factory,
                     wasPresent |-> \E g \in succeeded : Scheme(g) = Scheme(factory),
                     panicked |-> r.panicked, before |-> factories]
        /\ UNCHANGED fsVars

\* Lookup is called with any scheme string, registered or not.
LookupCall ==
    \E scheme \in 1..(NumSchemes + 1) :
        LET r == Lookup(factories, scheme) IN
        /\ factories' = r.factories
        /\ regOp' = [op |-> "Lookup", scheme |-> scheme,
                     result |-> r.result, panicked |-> r.panicked, before |-> factories]
        /\ UNCHANGED <<succeeded>>
        /\ UNCHANGED fsVars

(***************************************************************************)
(* The generic factory: typed functions of one backend behind the          *)
(* scheme-agnostic Factory interface.  The configuration type C of a       *)
(* factory is told by its scheme.                                          *)
(***************************************************************************)
Shapes == {"http", "limited"}

\* The factories NewHTTPBackendFactory and NewLimitedBackendFactory build,
\* with or without an openFilesystemFn argument.
GenericFactories == [scheme : Schemes, shape : Shapes, hasOpenFilesystemFn : BOOLEAN]

\* genericBackendFactory.ParseConfig: the *C of parseConfigFn as an
\* interface value; a nil *C when parsing failed.
ParseConfig(f, parsed) ==
    [cfg |-> [type |-> f.scheme, isNil |-> ~parsed], err |-> IF parsed THEN Nil ELSE "err"]

\* The configuration values a caller can hold.
Configs == {ParseConfig(f, parsed).cfg : f \in GenericFactories, parsed \in BOOLEAN}

\* What a backend's typed function can return.
FnResults == {[value |-> "value", err |-> Nil], [value |-> Nil, err |-> "err"]}

Unsupported == [value |-> Nil, err |-> "unsupported filesystem type"]

NoResult == [value |-> Nil, err |-> Nil]

Panic == [panicked |-> TRUE, invoked |-> FALSE, passedType |-> 0, rt |-> FALSE, lim |-> FALSE,
          result |-> NoResult]

\* A type recovery that takes any configuration for the factory's own.
TypeAssertAny(f, cfg) == TRUE

\* cfg.(*C): holds when the interface value is a *C of this factory.
TypeAssert(f, cfg) == cfg.type = f.scheme

\* The call of the backend's typed function by the wrapper the constructor
\* made: the HTTP shape hands on the transport, the limited shape the limiter.
Invoke(f, cfg, fnResult) ==
    [panicked |-> FALSE, invoked |-> TRUE, passedType |-> cfg.type,
     rt |-> f.shape = "http", lim |-> f.shape = "limited", result |-> fnResult]

\* An openFilesystemFn wrapper that calls the function it was given, nil or not.
OpenFilesystemFnUnchecked(f, cfg, fnResult) ==
    IF ~f.hasOpenFilesystemFn THEN Panic ELSE Invoke(f, cfg, fnResult)

\* The openFilesystemFn the constructors build: "unsupported filesystem type"
\* when none was supplied, else the supplied function's result.
OpenFilesystemFn(f, cfg, fnResult) ==
    IF ~f.hasOpenFilesystemFn
    THEN [panicked |-> FALSE, invoked |-> FALSE, passedType |-> 0, rt |-> FALSE, lim |-> FALSE,
          result |-> Unsupported]
    ELSE Invoke(f, cfg, fnResult)

\* Create / Open / OpenFilesystem of the generic factory: fn(ctx, *cfg.(*C), rt, lim).
\* The type assertion panics on another type, the dereference on a nil *C.
GenericCall(f, op, cfg, fnResult) ==
    IF ~TypeAssert(f, cfg) THEN Panic
    ELSE IF cfg.isNil THEN Panic
    ELSE IF op = "OpenFilesystem" THEN OpenFilesystemFn(f, cfg, fnResult)
    ELSE Invoke(f, cfg, fnResult)

FactoryCall(op) ==
    \E f \in GenericFactories, cfg \in Configs, fnResult \in FnResults :
        LET r == GenericCall(f, op, cfg, fnResult) IN
        /\ regOp' = [op |-> op, factory |-> f, cfg |-> cfg, fnResult |-> fnResult,
                     panicked |-> r.panicked, invoked |-> r.invoked,
                     passedType |-> r.passedType, rt |-> r.rt, lim |-> r.lim,
                     result |-> r.result]
        /\ UNCHANGED <<factories, succeeded>>
        /\ UNCHANGED fsVars

CreateCall == FactoryCall("Create")

OpenCall == FactoryCall("Open")

OpenFilesystemCall == FactoryCall("OpenFilesystem")

(***************************************************************************)
(* Strings: the operations of package strings the adapter uses.            *)
(***************************************************************************)
Sep == "/"

HasPrefix(s, p) == Len(p) <= Len(s) /\ SubSeq(s, 1, Len(p)) = p

HasSuffix(s, p) == Len(p) <= Len(s) /\ SubSeq(s, Len(s) - Len(p) + 1, Len(s)) = p

\* strings.TrimPrefix: s without the leading p, once.
TrimPrefix(s, p) == IF HasPrefix(s, p) THEN SubSeq(s, Len(p) + 1, Len(s)) ELSE s

\* strings.TrimRight(s, "/"): s without all its trailing separators.
RECURSIVE TrimRight(_)
TrimRight(s) ==
    IF s # <<>> /\ s[Len(s)] = Sep THEN TrimRight(SubSeq(s, 1, Len(s) - 1)) ELSE s

\* strings.LastIndex(s, "/"): 0-based index of the last separator, -1 if none.
LastIndex(s) ==
    LET at == {i \in 1..Len(s) : s[i] = Sep} IN
    IF at = {} THEN -1 ELSE (CHOOSE i \in at : \A j \in at : j <= i) - 1

\* 1-based index of the first separator of s, 0 if none.
FirstSep(s) ==
    LET at == {i \in 1..Len(s) : s[i] = Sep} IN
    IF at = {} THEN 0 ELSE CHOOSE i \in at : \A j \in at : i <= j

\* strings.Cut(s, "/"): the text before and after the first separator.
Cut(s) ==
    LET i == FirstSep(s) IN
    IF i = 0 THEN [before |-> s, after |-> <<>>, found |-> FALSE]
    ELSE [before |-> SubSeq(s, 1, i - 1), after |-> SubSeq(s, i + 1, Len(s)), found |-> TRUE]

\* The segments of a path between separators (empty ones included).
RECURSIVE Segments(_)
Segments(s) ==
    LET i == FirstSep(s) IN
    IF i = 0 THEN <<s>> ELSE <<SubSeq(s, 1, i - 1)>> \o Segments(SubSeq(s, i + 1, Len(s)))

RECURSIVE JoinSegments(_)
JoinSegments(segs) ==
    IF segs = <<>> THEN <<>>
    ELSE IF Len(segs) = 1 THEN segs[1]
    ELSE segs[1] \o <<Sep>> \o JoinSegments(Tail(segs))

\* filepath.Clean's pass over the segments: drop "" and ".", let ".." remove
\* the segment before it (a rooted path drops a leading "..", others keep it).
RECURSIVE CleanSegments(_, _, _)
CleanSegments(segs, out, rooted) ==
    IF segs = <<>> THEN out
    ELSE LET s == Head(segs) IN
         IF s = <<>> \/ s = <<".">> THEN CleanSegments(Tail(segs), out, rooted)
         ELSE IF s = <<".", ".">>
              THEN IF out # <<>> /\ out[Len(out)] # <<".", ".">>
                   THEN CleanSegments(Tail(segs), SubSeq(out, 1, Len(out) - 1), rooted)
                   ELSE IF rooted THEN CleanSegments(Tail(segs), out, rooted)
                   ELSE CleanSegments(Tail(segs), Append(out, s), rooted)
              ELSE CleanSegments(Tail(segs), Append(out, s), rooted)

\* filepath.Clean (Unix): the shortest equivalent path; "." for the empty one.
Clean(path) ==
    IF path = <<>> THEN <<".">>
    ELSE LET rooted == path[1] = Sep
             body == JoinSegments(CleanSegments(Segments(path), <<>>, rooted))
         IN IF rooted THEN <<Sep>> \o body
            ELSE IF body = <<>> THEN <<".">> ELSE body

(***************************************************************************)
(* The object store: one bucket, TheBucket, holding objects by key.        *)
(***************************************************************************)
KeyChars == {"a", Sep}

SeqsUpTo(chars, lo, hi) == UNION {[1..n -> chars] : n \in lo..hi}

\* Object keys are non-empty; the bucket holds none that begins with the separator.
Keys == {k \in SeqsUpTo(KeyChars, 1, MaxKeyLen) : k[1] # Sep}

Paths == SeqsUpTo(KeyChars, 0, MaxPathLen)

TheBucket == <<"a">>

\* time.Now(): later than every object's modification time.
Now == 0

\* The zero time.Time of an ObjectInfo that carries no LastModified.
ZeroTime == 0 - 1

\* The content and modification time the bucket holds for a key.
ObjectAt(k) == [content |-> [i \in 1..(Len(k) - 1) |-> i % 2], modTime |-> Len(k)]

Stores ==
    {[k \in ks |-> ObjectAt(k)] : ks \in {x \in SUBSET Keys : Cardinality(x) <= MaxObjects}}

Variants == {"s3FS", "FS3"}

CharRank(c) == IF c = "." THEN 1 ELSE IF c = Sep THEN 2 ELSE 3

\* Byte-wise (UTF-8 binary) order of keys, as the store lists them.
RECURSIVE KeyLess(_, _)
KeyLess(a, b) ==
    IF a = <<>> THEN b # <<>>
    ELSE IF b = <<>> THEN FALSE
    ELSE IF a[1] = b[1] THEN KeyLess(Tail(a), Tail(b))
    ELSE CharRank(a[1]) < CharRank(b[1])

RECURSIVE SortEntries(_)
SortEntries(S) ==
    IF S = {} THEN <<>>
    ELSE LET m == CHOOSE x \in S : \A y \in S : y = x \/ KeyLess(x.key, y.key)
         IN <<m>> \o SortEntries(S \ {m})

\* The entry a key contributes to a delimited listing under prefix: the object
\* itself, or the common prefix up to the first separator after the prefix.
ListEntry(st, k, prefix) ==
    LET rest == SubSeq(k, Len(prefix) + 1, Len(k))
        i == FirstSep(rest)
    IN IF i = 0
       THEN [key |-> k, size |-> Len(st[k].content), modTime |-> st[k].modTime,
             isPrefix |-> FALSE, err |-> Nil]
       ELSE [key |-> prefix \o SubSeq(rest, 1, i), size |-> 0, modTime |-> ZeroTime,
             isPrefix |-> TRUE, err |-> Nil]

SelectSeq2(sq, keep) == SelectSeq(sq, LAMBDA e : e.isPrefix = keep)

\* One response page is delivered objects first, then common prefixes.
RECURSIVE DeliverPages(_, _)
DeliverPages(sorted, pageSize) ==
    IF sorted = <<>> THEN <<>>
    ELSE LET n == IF Len(sorted) < pageSize THEN Len(sorted) ELSE pageSize
             page == SubSeq(sorted, 1, n)
         IN SelectSeq2(page, FALSE) \o SelectSeq2(page, TRUE)
            \o DeliverPages(SubSeq(sorted, n + 1, Len(sorted)), pageSize)

DefaultMaxKeys == 1000

ErrEntry == [key |-> <<>>, size |-> 0, modTime |-> ZeroTime, isPrefix |-> FALSE, err |-> "err"]

\* client.ListObjects(ctx, bucket, {Prefix, MaxKeys}) with the default, non-recursive
\* options: all entries under the prefix, fetched in pages of MaxKeys keys.
\* A bucket the store does not hold gives one error entry.
ListObjects(st, bucket, prefix, maxKeys) ==
    IF bucket # TheBucket THEN <<ErrEntry>>
    ELSE DeliverPages(
            SortEntries({ListEntry(st, k, prefix) : k \in {x \in DOMAIN st : HasPrefix(x, prefix)}}),
            IF maxKeys = 0 THEN DefaultMaxKeys ELSE maxKeys)

\* What the channel delivers when the listing fails after `fault` entries
\* (Nil: no failure); the producer stops at the error.
NoFault == 0 - 1

Delivered(listing, fault) ==
    IF fault = NoFault \/ listing = <<ErrEntry>> THEN listing
    ELSE Append(SubSeq(listing, 1, fault), ErrEntry)

Faults(listing) == {NoFault} \cup (0..Len(listing))

(***************************************************************************)
(* Handles                                                                 *)
(***************************************************************************)
NoObject == [open |-> FALSE]

NoHandle == [state |-> "none", variant |-> "s3FS", bucket |-> <<>>, key |-> <<>>, cancelled |-> FALSE,
             object |-> NoObject, list |-> FALSE]

\* obj_parse_path: the cleaned path without its leading separator, cut at the
\* first separator into bucket and key.
obj_parse_path(path) ==
    LET c == Cut(TrimPrefix(Clean(path), <<Sep>>)) IN [bucket |-> c.before, key |-> c.after]

\* An OpenFile that opens the read-stream at once.
OpenFileEager(v, path) ==
    [state |-> "open", variant |-> v, bucket |-> TheBucket,
     key |-> TrimPrefix(Clean(path), <<Sep>>), cancelled |-> FALSE,
     object |-> [open |-> TRUE, opts |-> [kind |-> "full", a |-> 0, b |-> 0],
                 started |-> FALSE, size |-> 0 - 1, cur |-> 0, seeked |-> FALSE,
                 body |-> <<>>, at |-> 0, err |-> FALSE, closed |-> FALSE],
     list |-> FALSE]

\* An OpenFile that takes the path as given, without filepath.Clean.
OpenFileNoClean(v, path) ==
    IF v = "s3FS"
    THEN [state |-> "open", variant |-> v, bucket |-> TheBucket,
          key |-> TrimPrefix(path, <<Sep>>), cancelled |-> FALSE,
          object |-> NoObject, list |-> FALSE]
    ELSE [state |-> "open", variant |-> v, bucket |-> Cut(TrimPrefix(path, <<Sep>>)).before,
          key |-> Cut(TrimPrefix(path, <<Sep>>)).after, cancelled |-> FALSE,
          object |-> NoObject, list |-> FALSE]

\* s3FS.OpenFile / FS3.OpenFile: no request; a fresh context, no stream, no listing.
OpenFile(v, path) ==
    IF v = "s3FS"
    THEN [state |-> "open", variant |-> v, bucket |-> TheBucket,
          key |-> TrimPrefix(Clean(path), <<Sep>>), cancelled |-> FALSE,
          object |-> NoObject, list |-> FALSE]
    ELSE [state |-> "open", variant |-> v, bucket |-> obj_parse_path(path).bucket,
          key |-> obj_parse_path(path).key, cancelled |-> FALSE,
          object |-> NoObject, list |-> FALSE]

\* The listing prefix of a key: trimRight(key, "/") + "/", empty for the empty key.
ListPrefix(key) ==
    LET prefix == TrimRight(key) IN IF prefix # <<>> THEN prefix \o <<Sep>> ELSE prefix

\* A metadata lookup whose result is never taken as a success.
StatObjectFails(st, f, transportErr) == FALSE

\* client.StatObject succeeds when the context is live, the transport does not
\* fail and the bucket holds an object at exactly the key.
StatObjectOk(st, f, transportErr) ==
    /\ ~f.cancelled
    /\ ~transportErr
    /\ f.bucket = TheBucket
    /\ f.key \in DOMAIN st

\* A probe loop that decides from the first entry alone.
StatLoopFirstOnly(items, prefix, acc) ==
    IF items = <<>> THEN acc
    ELSE [err |-> IF Head(items).err # Nil THEN Head(items).err ELSE acc.err,
          isDir |-> Head(items).key # prefix]

\* A probe loop that keeps no error.
StatLoopIgnoresErr(items, prefix, acc) ==
    [err |-> Nil,
     isDir |-> acc.isDir \/ \E i \in 1..Len(items) : items[i].key # prefix]

\* The probe loop of Stat: every error entry is kept as err (the address tests
\* &err != &it.Err and &err != &done compare distinct variables and hold always),
\* every entry whose key is not the prefix sets isDir.
RECURSIVE StatLoop(_, _, _)
StatLoop(items, prefix, acc) ==
    IF items = <<>> THEN acc
    ELSE LET it == Head(items)
             e == IF it.err # Nil THEN it.err ELSE acc.err
             d == IF it.key # prefix THEN TRUE ELSE acc.isDir
         IN StatLoop(Tail(items), prefix, [err |-> e, isDir |-> d])

NoInfo == [none |-> TRUE]

\* A probe loop that leaves at the first entry that shows a child.
ProbeLoopBreaksAtChild(items, prefix) ==
    LET hits == {i \in 1..Len(items) : items[i].key # prefix}
    IN IF hits = {} THEN Len(items) + 1
       ELSE CHOOSE i \in hits : \A j \in hits : i <= j

\* Where `for it := range ListObjects(...)` in Stat leaves: its body has no
\* break and no return, so only at the closed channel, after the last entry.
ProbeLoopExit(items, prefix) == Len(items) + 1

\* s3File.Stat (both variants): a key ending in the separator is a directory;
\* else the object's metadata; else the probe listing under key + "/" decides,
\* and an error entry fails the call.  probeDone: the call started no probe
\* listing, or left its loop at the closed channel (the producer closes the
\* channel when it ends).
StatFile(st, f, transportErr, delivered) ==
    IF HasSuffix(f.key, <<Sep>>)
    THEN [ok |-> TRUE, err |-> Nil, reqs |-> {}, received |-> 0, probeDone |-> TRUE,
          info |-> [bucket |-> f.bucket, key |-> f.key, size |-> 0, modTime |-> Now, isDir |-> TRUE]]
    ELSE IF StatObjectOk(st, f, transportErr)
    THEN [ok |-> TRUE, err |-> Nil, reqs |-> {"StatObject"}, received |-> 0, probeDone |-> TRUE,
          info |-> [bucket |-> f.bucket, key |-> f.key, size |-> Len(st[f.key].content),
                    modTime |-> st[f.key].modTime, isDir |-> FALSE]]
    ELSE LET exit == ProbeLoopExit(delivered, ListPrefix(f.key))
             got == IF exit > Len(delivered) THEN delivered ELSE SubSeq(delivered, 1, exit)
             acc == StatLoop(got, ListPrefix(f.key), [err |-> Nil, isDir |-> FALSE]) IN
         IF acc.err # Nil
         THEN [ok |-> FALSE, err |-> acc.err, reqs |-> {"StatObject", "ListObjects"},
               received |-> Len(got), probeDone |-> exit > Len(delivered), info |-> NoInfo]
         ELSE [ok |-> TRUE, err |-> Nil, reqs |-> {"StatObject", "ListObjects"},
               received |-> Len(got), probeDone |-> exit > Len(delivered),
               info |-> [bucket |-> f.bucket, key |-> f.key, size |-> 0, modTime |-> Now,
                         isDir |-> acc.isDir]]

\* MaxKeys of the probe listing.
ProbeMaxKeys == 2

\* What the probe listing of Stat can deliver: the listing under the prefix in
\* pages of 2, cut by a failure at any point; under a cancelled context, an
\* error entry or nothing.
ProbeDeliveries(st, f) ==
    IF f.cancelled THEN {<<>>, <<ErrEntry>>}
    ELSE LET l == ListObjects(st, f.bucket, ListPrefix(f.key), ProbeMaxKeys) IN
         {Delivered(l, fault) : fault \in Faults(l)}

(***************************************************************************)
(* Filesystem calls                                                        *)
(***************************************************************************)
NoRet == [op |-> "none"]

NoChan == [started |-> FALSE, all |-> <<>>, rest |-> <<>>, buf |-> <<>>, prod |-> "none"]

NoSeek == [offset |-> 0, whence |-> 0, explicit |-> FALSE]

NoHist == [reqs |-> {}, lists |-> 0, gets |-> 0, first |-> NoSeek, bytes |-> <<>>,
           eof |-> FALSE, delegated |-> FALSE, listed |-> <<>>, dirErr |-> FALSE,
           faulted |-> FALSE]

NoCall == [at |-> "idle", n |-> 0, from |-> 0, asked |-> 0]

Idle == pc.at = "idle"

OpenFileCall ==
    /\ Idle
    /\ h.state = "none"
    /\ \E v \in Variants, path \in Paths :
         /\ h' = OpenFile(v, path)
         /\ ret' = [op |-> "OpenFile", path |-> path, ok |-> TRUE]
    /\ UNCHANGED <<store, ch, pc, files, hist>>
    /\ UNCHANGED regVars

\* The characters of the names given to Open: a letter, the separator and
\* the dot of the "." and ".." elements that filepath.Clean resolves.
NameChars == {"a", Sep, "."}

Names == SeqsUpTo(NameChars, 0, MaxPathLen)

\* fs.Open(name) of both variants: OpenFile(name, 0, 0).
Open ==
    /\ Idle
    /\ h.state = "none"
    /\ \E v \in Variants, name \in Names :
         /\ h' = OpenFile(v, name)
         /\ ret' = [op |-> "Open", path |-> name, ok |-> TRUE]
    /\ UNCHANGED <<store, ch, pc, files, hist>>
    /\ UNCHANGED regVars

\* The listings of the handle whose producers run while a Stat call with
\* result r runs: the probe listing, if the call made one, and the listing
\* of Readdir, if its producer has not finished.
ListsDuringStat(r, c) ==
    (IF "ListObjects" \in r.reqs THEN 1 ELSE 0)
    + (IF c.started /\ c.prod # "done" THEN 1 ELSE 0)

\* f.Stat() on the open handle.
StatFileCall ==
    /\ Idle
    /\ h.state \in {"open", "closed"}
    /\ \E transportErr \in BOOLEAN, delivered \in ProbeDeliveries(store, h) :
         LET r == StatFile(store, h, transportErr, delivered) IN
         /\ ret' = [op |-> "Stat", how |-> "handle", key |-> h.key, bucket |-> h.bucket,
                     ok |-> r.ok, err |-> r.err, info |-> r.info, reqs |-> r.reqs,
                     received |-> r.received, transportErr |-> transportErr,
                     delivered |-> delivered, cancelled |-> h.cancelled,
                     lists |-> ListsDuringStat(r, ch), probeDone |-> r.probeDone]
         /\ hist' = [hist EXCEPT !.reqs = @ \cup r.reqs]
    /\ UNCHANGED <<store, h, ch, pc, files>>
    /\ UNCHANGED regVars

\* The handle after Close on a handle with no listing and no stream: its
\* context cancelled.
Released(f) == [f EXCEPT !.state = "released", !.cancelled = TRUE]

\* The handle Stat(path) leaves behind: s3FS defers f.Close(); FS3 returns
\* f.Stat() and drops the handle with its context live.
AfterStatPath(f) ==
    IF f.variant = "s3FS" THEN Released(f) ELSE [f EXCEPT !.state = "dropped"]

\* fs.Stat(path): OpenFile, then f.Stat() on the handle it made.
StatPathCall ==
    /\ Idle
    /\ h.state = "none"
    /\ \E v \in Variants, path \in Paths :
         LET f == OpenFile(v, path) IN
         \E transportErr \in BOOLEAN, delivered \in ProbeDeliveries(store, f) :
             LET r == StatFile(store, f, transportErr, delivered) IN
             /\ ret' = [op |-> "Stat", how |-> "path", key |-> f.key, bucket |-> f.bucket,
                         ok |-> r.ok, err |-> r.err, info |-> r.info, reqs |-> r.reqs,
                         received |-> r.received, transportErr |-> transportErr,
                         delivered |-> delivered, cancelled |-> f.cancelled,
                         lists |-> ListsDuringStat(r, NoChan), probeDone |-> r.probeDone]
             /\ hist' = [hist EXCEPT !.reqs = @ \cup r.reqs]
             /\ h' = AfterStatPath(f)
    /\ UNCHANGED <<store, ch, pc, files>>
    /\ UNCHANGED regVars

(***************************************************************************)
(* Readdir, Close and the producer of the listing sequence                 *)
(***************************************************************************)
\* Readdir's page size when n <= 0.
DefaultN == 1000

\* Capacity of the channel ListObjects returns.
ChanCap == 1

\* obj_file_name without the trim of trailing separators.
ObjFileNameNoTrim(bucket, key) ==
    IF key = <<>> THEN bucket
    ELSE IF LastIndex(key) < 0 THEN key ELSE SubSeq(key, LastIndex(key) + 2, Len(key))

\* obj_file_name: the bucket for the empty key, else what follows the last
\* separator of the key without its trailing separators.
obj_file_name(bucket, key) ==
    IF key = <<>> THEN bucket
    ELSE LET trimkey == TrimRight(key)
             p == LastIndex(trimkey)
         IN IF p < 0 THEN trimkey ELSE SubSeq(trimkey, p + 2, Len(trimkey))

\* s3FileInfo.Name()
Name(info) == obj_file_name(info.bucket, info.key)

\* A Readdir that skips nothing.
SkipNothing(it, prefix) == FALSE

\* Readdir's test for the prefix marker: it.Key == prefix || it.Key+"/" == prefix.
SkipEntry(it, prefix) == it.key = prefix \/ it.key \o <<Sep>> = prefix

\* A loop body that, on an error entry, ends the call with what it has collected.
ReaddirStepKeepsPartial(fs, it, prefix, n, bucket) ==
    IF it.err # Nil
    THEN [done |-> TRUE, ok |-> TRUE, err |-> Nil, files |-> fs]
    ELSE IF SkipEntry(it, prefix)
    THEN [done |-> FALSE, ok |-> TRUE, err |-> Nil, files |-> fs]
    ELSE [done |-> Len(fs) + 1 >= n, ok |-> TRUE, err |-> Nil,
          files |-> Append(fs, [bucket |-> bucket, key |-> it.key, size |-> it.size,
                                modTime |-> it.modTime, isDir |-> HasSuffix(it.key, <<Sep>>)])]

\* A loop body that returns at the n-th entry without keeping it.
ReaddirStepDropsLast(fs, it, prefix, n, bucket) ==
    IF it.err # Nil
    THEN [done |-> TRUE, ok |-> FALSE, err |-> it.err, files |-> <<>>]
    ELSE IF SkipEntry(it, prefix)
    THEN [done |-> FALSE, ok |-> TRUE, err |-> Nil, files |-> fs]
    ELSE IF Len(fs) + 1 >= n
    THEN [done |-> TRUE, ok |-> TRUE, err |-> Nil, files |-> fs]
    ELSE [done |-> FALSE, ok |-> TRUE, err |-> Nil,
          files |-> Append(fs, [bucket |-> bucket, key |-> it.key, size |-> it.size,
                                modTime |-> it.modTime, isDir |-> HasSuffix(it.key, <<Sep>>)])]

\* The body of Readdir's loop for one received entry: an error entry returns
\* (nil, err); a marker is skipped; any other entry is appended, and the call
\* returns once n entries are collected.
ReaddirStep(fs, it, prefix, n, bucket) ==
    IF it.err # Nil
    THEN [done |-> TRUE, ok |-> FALSE, err |-> it.err, files |-> <<>>]
    ELSE IF SkipEntry(it, prefix)
    THEN [done |-> FALSE, ok |-> TRUE, err |-> Nil, files |-> fs]
    ELSE LET info == [bucket |-> bucket, key |-> it.key, size |-> it.size,
                      modTime |-> it.modTime, isDir |-> HasSuffix(it.key, <<Sep>>)]
             out == Append(fs, info)
         IN [done |-> Len(out) >= n, ok |-> TRUE, err |-> Nil, files |-> out]

\* Readdir up to its loop: n <= 0 becomes 1000; the first call on a handle
\* starts the listing under the prefix (default page size) and keeps it in f.list.
ReaddirBegin ==
    /\ Idle
    /\ h.state = "open"
    /\ \E n \in 0..MaxN :
         /\ pc' = [at |-> "Readdir", n |-> IF n <= 0 THEN DefaultN ELSE n,
                    from |-> Len(ch.all) - Len(ch.rest) - Len(ch.buf), asked |-> n]
         /\ IF h.list
            THEN UNCHANGED <<h, ch, hist>>
            ELSE LET l == ListObjects(store, h.bucket, ListPrefix(h.key), 0) IN
                 \E fault \in Faults(l) :
                     /\ ch' = [started |-> TRUE, all |-> Delivered(l, fault),
                                rest |-> Delivered(l, fault), buf |-> <<>>, prod |-> "running"]
                     /\ h' = [h EXCEPT !.list = TRUE]
                     /\ hist' = [hist EXCEPT !.reqs = @ \cup {"ListObjects"},
                                              !.lists = @ + 1]
    /\ files' = <<>>
    /\ ret' = [op |-> "pending"]
    /\ UNCHANGED store
    /\ UNCHANGED regVars

\* One iteration of `for it := range f.list`.
ReaddirRecv ==
    /\ pc.at = "Readdir"
    /\ ch.buf # <<>>
    /\ LET it == Head(ch.buf)
           r == ReaddirStep(files, it, ListPrefix(h.key), pc.n, h.bucket)
       IN /\ ch' = [ch EXCEPT !.buf = Tail(@)]
          /\ IF r.done
             THEN /\ ret' = [op |-> "Readdir", ok |-> r.ok, err |-> r.err, files |-> r.files,
                             n |-> pc.n, from |-> pc.from, sawErr |-> it.err # Nil,
                             collected |-> Len(files), key |-> h.key, bucket |-> h.bucket,
                             asked |-> pc.asked]
                  /\ pc' = NoCall
                  /\ files' = <<>>
                  /\ hist' = IF r.ok THEN [hist EXCEPT !.listed = @ \o r.files]
                             ELSE [hist EXCEPT !.dirErr = TRUE]
             ELSE /\ files' = r.files
                  /\ UNCHANGED <<ret, pc, hist>>
    /\ UNCHANGED <<store, h>>
    /\ UNCHANGED regVars

\* The loop ends when the channel is closed and empty: return files, nil.
ReaddirEnd ==
    /\ pc.at = "Readdir"
    /\ ch.buf = <<>>
    /\ ch.prod = "done"
    /\ ret' = [op |-> "Readdir", ok |-> TRUE, err |-> Nil, files |-> files,
                n |-> pc.n, from |-> pc.from, sawErr |-> FALSE,
                collected |-> Len(files), key |-> h.key, bucket |-> h.bucket,
                asked |-> pc.asked]
    /\ pc' = NoCall
    /\ files' = <<>>
    /\ hist' = [hist EXCEPT !.listed = @ \o files]
    /\ UNCHANGED <<store, h, ch>>
    /\ UNCHANGED regVars

\* A Close that forgets the listing without draining it.
CloseForgetsList(f) == FALSE

\* Close's test `if f.list != nil`: the listing must be drained.
CloseMustDrain(f) == f.list

\* The handle when Close returns: context cancelled, no listing; the stream,
\* if any, closed.
Closed(f) ==
    [f EXCEPT !.state = "closed", !.cancelled = TRUE, !.list = FALSE,
              !.object = IF @.open THEN [@ EXCEPT !.closed = TRUE] ELSE @]

\* Close up to its drain loop: f.cancel(), then the loop if a listing is held.
CloseBegin ==
    /\ Idle
    /\ h.state = "open"
    /\ IF CloseMustDrain(h)
       THEN /\ h' = [h EXCEPT !.cancelled = TRUE]
            /\ pc' = [at |-> "CloseDrain", n |-> 0, from |-> 0, asked |-> 0]
            /\ ret' = [op |-> "pending"]
       ELSE /\ h' = Closed(h)
            /\ ret' = [op |-> "Close", ok |-> TRUE]
            /\ pc' = NoCall
    /\ UNCHANGED <<store, ch, files, hist>>
    /\ UNCHANGED regVars

\* One iteration of `for range f.list`.
CloseDrain ==
    /\ pc.at = "CloseDrain"
    /\ ch.buf # <<>>
    /\ ch' = [ch EXCEPT !.buf = Tail(@)]
    /\ UNCHANGED <<store, h, pc, files, ret, hist>>
    /\ UNCHANGED regVars

\* The drain loop ends on the closed, empty channel: f.list = nil, close the stream.
CloseEnd ==
    /\ pc.at = "CloseDrain"
    /\ ch.buf = <<>>
    /\ ch.prod = "done"
    /\ h' = Closed(h)
    /\ ret' = [op |-> "Close", ok |-> TRUE]
    /\ pc' = NoCall
    /\ UNCHANGED <<store, ch, files, hist>>
    /\ UNCHANGED regVars

\* The producer of the listing puts its next entry into the channel; it may
\* still do so after the context is cancelled (both cases of its select are ready).
ProdSend ==
    /\ ch.started
    /\ ch.prod = "running"
    /\ ch.rest # <<>>
    /\ Len(ch.buf) < ChanCap
    /\ ch' = [ch EXCEPT !.buf = Append(@, Head(ch.rest)), !.rest = Tail(@)]
    /\ UNCHANGED <<store, h, pc, files, ret, hist>>
    /\ UNCHANGED regVars

\* The producer stops: after its last entry (an error entry is the last), or
\* because the context is cancelled. It then closes the channel; on a
\* cancelled context it may first have the context's error to deliver.
ProdStop ==
    /\ ch.started
    /\ ch.prod = "running"
    /\ ch.rest = <<>> \/ h.cancelled
    /\ \E last \in (IF h.cancelled THEN BOOLEAN ELSE {FALSE}) :
         ch' = [ch EXCEPT !.prod = IF last THEN "defer" ELSE "done"]
    /\ UNCHANGED <<store, h, pc, files, ret, hist>>
    /\ UNCHANGED regVars

\* The stopping producer delivers the context's error, then closes the channel.
ProdDeferSend ==
    /\ ch.started
    /\ ch.prod = "defer"
    /\ Len(ch.buf) < ChanCap
    /\ ch' = [ch EXCEPT !.buf = Append(@, ErrEntry), !.prod = "done"]
    /\ UNCHANGED <<store, h, pc, files, ret, hist>>
    /\ UNCHANGED regVars

Producer == ProdSend \/ ProdStop \/ ProdDeferSend

(***************************************************************************)
(* Seek and Read: the read-stream of a handle.  The stream is the client   *)
(* library's lazy Object: GetObject sends nothing, the first Read sends    *)
(* the request with the range chosen by Seek.                              *)
(***************************************************************************)
SeekStart == 0
SeekCurrent == 1
SeekEnd == 2

Whences == {SeekStart, SeekCurrent, SeekEnd}

\* The contents of the read scenarios: every size up to MaxSize, each byte
\* telling its position, so that any two ranges of a content differ.
Contents == {[i \in 1..n |-> i] : n \in 0..MaxSize}

Offsets == (0 - 1)..MaxSize

\* The bucket of the read scenarios: one object, of any size up to MaxSize bytes.
TheKey == <<"a">>

ReadStores == {[k \in {TheKey} |-> [content |-> c, modTime |-> 1]] : c \in Contents}

Min(a, b) == IF a <= b THEN a ELSE b

FullRange == [kind |-> "full", a |-> 0, b |-> 0]

\* GetObjectOptions.SetRange(start, end) of the client library:
\* (0, -n) asks for the last n bytes, (s, 0) with s > 0 for the bytes from s on,
\* (s, e) with 0 <= s <= e for the bytes s..e; anything else is an error.
SetRange(start, end) ==
    IF start = 0 /\ end < 0
    THEN [ok |-> TRUE, opts |-> [kind |-> "suffix", a |-> 0 - end, b |-> 0]]
    ELSE IF 0 < start /\ end = 0
    THEN [ok |-> TRUE, opts |-> [kind |-> "from", a |-> start, b |-> 0]]
    ELSE IF 0 <= start /\ start <= end
    THEN [ok |-> TRUE, opts |-> [kind |-> "range", a |-> start, b |-> end]]
    ELSE [ok |-> FALSE, opts |-> FullRange]

\* The bytes the store sends for a range of a content; a range that begins
\* at or after the end of the content is refused.
Body(content, opts) ==
    LET S == Len(content) IN
    IF opts.kind = "full" THEN [ok |-> TRUE, data |-> content]
    ELSE IF opts.kind = "suffix"
    THEN IF S = 0 THEN [ok |-> FALSE, data |-> <<>>]
         ELSE [ok |-> TRUE, data |-> SubSeq(content, S - Min(opts.a, S) + 1, S)]
    ELSE IF opts.kind = "from"
    THEN IF opts.a >= S THEN [ok |-> FALSE, data |-> <<>>]
         ELSE [ok |-> TRUE, data |-> SubSeq(content, opts.a + 1, S)]
    ELSE IF opts.a >= S THEN [ok |-> FALSE, data |-> <<>>]
         ELSE [ok |-> TRUE, data |-> SubSeq(content, opts.a + 1, Min(opts.b + 1, S))]

\* A request for the handle's object: answered when the context is live,
\* the transport works, the object exists and the range can be satisfied.
Fetch(st, f, opts, transportErr) ==
    IF f.cancelled \/ transportErr \/ f.bucket # TheBucket \/ f.key \notin DOMAIN st
    THEN [ok |-> FALSE, data |-> <<>>]
    ELSE Body(st[f.key].content, opts)

\* The Object GetObject returns: nothing requested yet.
NewObject(opts) ==
    [open |-> TRUE, opts |-> opts, started |-> FALSE, size |-> 0 - 1, cur |-> 0,
     seeked |-> FALSE, body |-> <<>>, at |-> 0, err |-> FALSE, closed |-> FALSE]

\* GetObject refuses an empty bucket name and an empty object name.
ValidNames(f) == f.bucket # <<>> /\ f.key # <<>>

\* Range options that ask for the first bytes up to the offset.
SeekOptionsUpTo(offset, whence) ==
    IF offset = 0 THEN [ok |-> TRUE, opts |-> FullRange]
    ELSE IF whence = SeekEnd THEN SetRange(0, 0 - offset)
    ELSE SetRange(0, offset)

\* The range options of Seek with the sign of the offset kept for whence = end.
SeekOptionsKeepSign(offset, whence) ==
    IF offset = 0 THEN [ok |-> TRUE, opts |-> FullRange]
    ELSE IF whence = SeekEnd THEN SetRange(0, offset)
    ELSE SetRange(offset, 0)

\* The range options Seek builds when the handle has no stream.
SeekOptions(offset, whence) ==
    IF offset = 0 THEN [ok |-> TRUE, opts |-> FullRange]
    ELSE IF whence = SeekEnd THEN SetRange(0, 0 - offset)
    ELSE SetRange(offset, 0)

\* s3File.Seek on a handle without a stream: build the options, GetObject,
\* keep the Object, return the offset as given.
SeekOpen(f, offset, whence) ==
    LET o == SeekOptions(offset, whence) IN
    IF ~o.ok \/ ~ValidNames(f)
    THEN [ok |-> FALSE, f |-> f, pos |-> 0]
    ELSE [ok |-> TRUE, f |-> [f EXCEPT !.object = NewObject(o.opts)], pos |-> offset]

\* Object.Seek of the client library: learns the size with a metadata request
\* if nothing was requested yet, then moves the offset; the next Read
\* requests the object again from the new offset.
ObjectSeek(st, f, offset, whence, transportErr) ==
    LET o == f.object
        stat == Fetch(st, f, o.opts, transportErr)
        known == o.started
        size == IF known THEN o.size ELSE Len(stat.data)
        o1 == IF known THEN o ELSE [o EXCEPT !.started = TRUE, !.size = size]
        target == IF whence = SeekStart THEN offset
                  ELSE IF whence = SeekCurrent THEN o.cur + offset
                  ELSE size + offset
        bad == \/ offset < 0 /\ whence # SeekEnd
               \/ whence # SeekEnd /\ target > size
               \/ whence = SeekCurrent /\ target < 0
               \/ whence = SeekEnd /\ (offset > 0 \/ target < 0)
    IN  IF o.err \/ o.closed THEN [ok |-> FALSE, f |-> f, pos |-> 0]
        ELSE IF offset < 0 /\ whence # SeekEnd THEN [ok |-> FALSE, f |-> f, pos |-> 0]
        ELSE IF ~known /\ ~stat.ok
        THEN [ok |-> FALSE, f |-> [f EXCEPT !.object.err = TRUE], pos |-> 0]
        ELSE IF bad THEN [ok |-> FALSE, f |-> [f EXCEPT !.object = o1], pos |-> 0]
        ELSE [ok |-> TRUE,
              f |-> [f EXCEPT !.object = [o1 EXCEPT !.cur = target, !.seeked = TRUE]],
              pos |-> target]

\* Object.Read of the client library into a buffer of k bytes: the first
\* Read, and the first after a Seek, request the object; the bytes come from
\* the response body; end-of-stream is reported once the body is used up.
ObjectRead(st, f, k, transportErr) ==
    LET o == f.object
        refetch == ~o.started \/ o.seeked
        opts == IF ~o.seeked THEN o.opts
                ELSE IF o.cur > 0 THEN [kind |-> "from", a |-> o.cur, b |-> 0]
                ELSE FullRange
        resp == Fetch(st, f, opts, transportErr)
        body == IF refetch THEN resp.data ELSE o.body
        at == IF refetch THEN 0 ELSE o.at
        n == Min(k, Len(body) - at)
        size == IF o.started THEN o.size ELSE Len(body)
    IN  IF o.err \/ o.closed
        THEN [ok |-> FALSE, f |-> f, n |-> 0, eof |-> FALSE, data |-> <<>>]
        ELSE IF (refetch /\ ~resp.ok) \/ (~refetch /\ (transportErr \/ f.cancelled))
        THEN [ok |-> FALSE, f |-> [f EXCEPT !.object.err = TRUE],
              n |-> 0, eof |-> FALSE, data |-> <<>>]
        ELSE [ok |-> TRUE,
              f |-> [f EXCEPT !.object =
                        [o EXCEPT !.started = TRUE, !.seeked = FALSE, !.size = size,
                                  !.body = body, !.at = at + n, !.cur = o.cur + n]],
              n |-> n,
              eof |-> at + n >= Len(body),
              data |-> SubSeq(body, at + 1, at + n)]

\* s3File.Seek.
SeekCall ==
    /\ Idle
    /\ h.state = "open"
    /\ \E offset \in Offsets, whence \in Whences,
          transportErr \in (IF h.object.open /\ ~h.object.started /\ ~h.object.err
                            THEN BOOLEAN ELSE {FALSE}) :
         LET r == IF h.object.open
                  THEN ObjectSeek(store, h, offset, whence, transportErr)
                  ELSE SeekOpen(h, offset, whence)
         IN  /\ h' = r.f
             /\ ret' = [op |-> "Seek", ok |-> r.ok, pos |-> r.pos]
             /\ hist' = IF h.object.open
                        THEN [hist EXCEPT !.delegated = TRUE, !.faulted = @ \/ transportErr]
                        ELSE IF r.ok
                        THEN [hist EXCEPT !.gets = @ + 1,
                                          !.first = [offset |-> offset, whence |-> whence,
                                                     explicit |-> TRUE]]
                        ELSE hist
    /\ UNCHANGED <<store, ch, pc, files>>
    /\ UNCHANGED regVars

\* s3File.Read: Seek(0, start) first if the handle has no stream, then the
\* stream's Read.
ReadCall ==
    /\ Idle
    /\ h.state = "open"
    /\ \E k \in 1..MaxBuf,
          transportErr \in (IF h.object.open /\ h.object.err THEN {FALSE} ELSE BOOLEAN) :
         LET s == IF h.object.open THEN [ok |-> TRUE, f |-> h, pos |-> 0]
                  ELSE SeekOpen(h, 0, SeekStart)
             r == IF s.ok THEN ObjectRead(store, s.f, k, transportErr)
                  ELSE [ok |-> FALSE, f |-> h, n |-> 0, eof |-> FALSE, data |-> <<>>]
             opened == ~h.object.open /\ s.ok
             h1 == IF opened
                   THEN [hist EXCEPT !.gets = @ + 1,
                                     !.first = [offset |-> 0, whence |-> SeekStart,
                                                explicit |-> FALSE],
                                     !.faulted = @ \/ transportErr]
                   ELSE [hist EXCEPT !.faulted = @ \/ (s.ok /\ transportErr)]
         IN  /\ h' = r.f
             /\ ret' = [op |-> "Read", ok |-> r.ok, n |-> r.n, eof |-> r.eof]
             /\ hist' = IF r.ok /\ ~hist.delegated
                        THEN [h1 EXCEPT !.bytes = @ \o r.data, !.eof = @ \/ r.eof]
                        ELSE h1
    /\ UNCHANGED <<store, ch, pc, files>>
    /\ UNCHANGED regVars

InitRegistry ==
    /\ factories = NewRegistry
    /\ succeeded = {}
    /\ regOp = NoRegOp

InitFS ==
    /\ store \in Stores
    /\ h = NoHandle
    /\ ch = NoChan
    /\ pc = NoCall
    /\ files = <<>>
    /\ ret = NoRet
    /\ hist = NoHist

\* The registry alone.
InitReg ==
    /\ InitRegistry
    /\ store = <<>> /\ h = NoHandle /\ ch = NoChan
    /\ pc = NoCall /\ files = <<>> /\ ret = NoRet /\ hist = NoHist

NextReg == RegisterCall \/ LookupCall

SpecReg == InitReg /\ [][NextReg]_vars

\* The generic factories called with every configuration value.
NextFactory == CreateCall \/ OpenCall \/ OpenFilesystemCall

SpecFactory == InitReg /\ [][NextFactory]_vars

\* Stat on paths and on a handle, over every bucket content.
InitStat == InitRegistry /\ InitFS

NextStat == OpenFileCall \/ StatFileCall \/ StatPathCall

SpecStat == InitStat /\ [][NextStat]_vars

\* Open on every name, with "." and ".." elements, and Stat on the handle.
NextOpen == Open \/ StatFileCall

SpecOpen == InitStat /\ [][NextOpen]_vars

\* Stat over the buckets that hold one object more than those of Stores, so
\* that a prefix can have more entries than one page of the probe.
CrowdedStores ==
    {[k \in ks |-> ObjectAt(k)] : ks \in {x \in SUBSET Keys : Cardinality(x) = MaxObjects + 1}}

InitProbe ==
    /\ InitRegistry
    /\ store \in CrowdedStores
    /\ h = NoHandle /\ ch = NoChan
    /\ pc = NoCall /\ files = <<>> /\ ret = NoRet /\ hist = NoHist

SpecProbe == InitProbe /\ [][NextStat]_vars

\* Readdir and Close on a handle, with the listing's producer running beside them.
NextDir ==
    \/ OpenFileCall
    \/ ReaddirBegin \/ ReaddirRecv \/ ReaddirEnd
    \/ CloseBegin \/ CloseDrain \/ CloseEnd
    \/ ProdSend \/ ProdStop \/ ProdDeferSend

SpecDir == InitStat /\ [][NextDir]_vars

\* Seek, Read and Close on a handle of a bucket with one object.
InitRead ==
    /\ InitRegistry
    /\ store \in ReadStores
    /\ h = NoHandle /\ ch = NoChan
    /\ pc = NoCall /\ files = <<>> /\ ret = NoRet /\ hist = NoHist

NextRead == OpenFileCall \/ SeekCall \/ ReadCall \/ CloseBegin

SpecRead == InitRead /\ [][NextRead]_vars

\* Every operation of a handle, on a bucket with an object "a" and two
\* entries under "a/", so that one handle can hold a stream and a listing.
CloseStore == [k \in {<<"a">>, <<"a", Sep, "a">>, <<"a", Sep, Sep>>} |-> ObjectAt(k)]

InitClose ==
    /\ InitRegistry
    /\ store = CloseStore
    /\ h = NoHandle /\ ch = NoChan
    /\ pc = NoCall /\ files = <<>> /\ ret = NoRet /\ hist = NoHist

NextClose == NextDir \/ SeekCall \/ ReadCall

SpecClose == InitClose /\ [][NextClose]_vars

\* Every call of a handle, Stat included, on the same bucket.
NextHandle == NextClose \/ StatFileCall

SpecHandle == InitClose /\ [][NextHandle]_vars

\* The calls that make listings, Stat with its probe and Readdir, with Close
\* and the producer, on the same bucket.
NextList == NextDir \/ StatFileCall

SpecList == InitClose /\ [][NextList]_vars

\* SpecClose with the scheduling the runtime gives: the producer goroutine
\* runs when it can, and a caller inside Readdir or Close goes on.
SpecCloseFair ==
    /\ SpecClose
    /\ WF_vars(Producer)
    /\ WF_vars(ReaddirRecv \/ ReaddirEnd)
    /\ WF_vars(CloseDrain \/ CloseEnd)

(***************************************************************************)
(* Claims about the registry                                               *)
(***************************************************************************)

\* C1: a Register whose scheme is already present panics and leaves the
\* registry unchanged, a Register with a new scheme succeeds, and every
\* factory whose Register returned is what Lookup of its scheme returns
\* from then on (so the first factory of a scheme stays).
C1_RegisterOnce ==
    /\ regOp.op = "Register" =>
          /\ regOp.wasPresent => (regOp.panicked /\ factories = regOp.before)
          /\ ~regOp.wasPresent =>
                (~regOp.panicked /\ MapGet(factories, Scheme(regOp.factory)) = regOp.factory)
    /\ \A f \in succeeded : Lookup(factories, Scheme(f)).result = f

\* A duplicate Register has panicked with two other schemes registered.
C1_Witness ==
    /\ regOp.op = "Register"
    /\ regOp.panicked
    /\ Cardinality(succeeded) >= 2
    /\ regOp.factory \notin succeeded

\* C2: Lookup of a scheme that was never registered returns nil without
\* panicking, and no Lookup changes the registered factories.
C2_LookupPure ==
    [][regOp'.op = "Lookup" =>
          /\ factories' = factories
          /\ (\A g \in succeeded' : Scheme(g) # regOp'.scheme) =>
                (regOp'.result = NilFactory /\ ~regOp'.panicked)]_vars

\* An unregistered scheme was looked up in a registry that holds factories.
C2_Witness ==
    /\ regOp.op = "Lookup"
    /\ succeeded # {}
    /\ \A g \in succeeded : Scheme(g) # regOp.scheme
    /\ regOp.result = NilFactory

\* The last call was made on a factory with a configuration that
\* ParseConfig of a factory of the same scheme produced.
OwnConfig == regOp.cfg.type = regOp.factory.scheme /\ ~regOp.cfg.isNil

\* C12: OpenFilesystem with a configuration of the factory's own type, on a
\* factory built without an openFilesystem function, returns the error
\* "unsupported filesystem type" and no filesystem, without panicking; on a
\* factory built with one it returns exactly that function's result.
C12_OpenFilesystemDefault ==
    (regOp.op = "OpenFilesystem" /\ OwnConfig) =>
        /\ ~regOp.panicked
        /\ ~regOp.factory.hasOpenFilesystemFn => (regOp.result = Unsupported /\ ~regOp.invoked)
        /\ regOp.factory.hasOpenFilesystemFn =>
              (regOp.invoked /\ regOp.result = regOp.fnResult)

\* OpenFilesystem was called with its own configuration on a limited-shape
\* factory that has no openFilesystem function.
C12_Witness ==
    /\ regOp.op = "OpenFilesystem"
    /\ OwnConfig
    /\ ~regOp.factory.hasOpenFilesystemFn
    /\ regOp.factory.shape = "limited"
    /\ regOp.result = Unsupported

\* C13: Create, Open or OpenFilesystem with a configuration that is not of
\* the factory's own type panics, and the backend's typed function is not
\* invoked; whenever it is invoked it gets a configuration of its own type.
C13_MismatchPanics ==
    regOp.op \in {"Create", "Open", "OpenFilesystem"} =>
        /\ regOp.cfg.type # regOp.factory.scheme => (regOp.panicked /\ ~regOp.invoked)
        /\ regOp.invoked => (regOp.passedType = regOp.factory.scheme /\ ~regOp.cfg.isNil)

\* Open was called with the configuration another factory parsed.
C13_Witness ==
    /\ regOp.op = "Open"
    /\ regOp.cfg.type # regOp.factory.scheme
    /\ ~regOp.cfg.isNil
    /\ regOp.panicked

(***************************************************************************)
(* Claims about Stat                                                       *)
(***************************************************************************)
\* The last call was a Stat of key K in the bucket the store holds.
StatReturned == ret.op = "Stat" /\ ret.bucket = TheBucket

ObjectExists(k) == k \in DOMAIN store

\* Some object's key starts with K + "/" and is not K + "/" itself.
HasChild(k) ==
    \E x \in DOMAIN store : HasPrefix(x, k \o <<Sep>>) /\ x # k \o <<Sep>>

NothingUnder(k) == \A x \in DOMAIN store : ~HasPrefix(x, k \o <<Sep>>)

\* No transport error in the call: the lookup and the probe listing both ran
\* to their end on a live context.
NoTransportError ==
    /\ ~ret.transportErr
    /\ ~ret.cancelled
    /\ \A i \in 1..Len(ret.delivered) : ret.delivered[i].err = Nil

\* C3: a key with no object at it and none under key + "/" makes Stat report
\* an error (not found) and no FileInfo, when no transport error occurs.
C3_MissingIsNotFound ==
    (StatReturned /\ ~ObjectExists(ret.key) /\ NothingUnder(ret.key) /\ NoTransportError)
        => ~ret.ok

\* C4 as stated: no object at K and an object under K + "/" make Stat succeed
\* with is-directory = true and size 0.
C4_Original ==
    (StatReturned /\ ~ObjectExists(ret.key) /\ HasChild(ret.key))
        => (ret.ok /\ ret.info.isDir /\ ret.info.size = 0)

\* C4 amended: the same, provided the probe listing delivers all its entries
\* and no error entry.
C4_DirectoryByChild ==
    (StatReturned /\ ~ObjectExists(ret.key) /\ HasChild(ret.key)
        /\ ~ret.cancelled
        /\ \A i \in 1..Len(ret.delivered) : ret.delivered[i].err = Nil)
        => (ret.ok /\ ret.info.isDir /\ ret.info.size = 0)

\* Stat found a directory whose probe listing began with the prefix marker.
C4_Witness ==
    /\ StatReturned /\ ~ObjectExists(ret.key) /\ HasChild(ret.key)
    /\ ret.ok /\ ret.info.isDir
    /\ Len(ret.delivered) >= 2
    /\ ret.delivered[1].key = ret.key \o <<Sep>>

\* The metadata Stat must report for the object at K.
ReportsObject(k) ==
    /\ ret.ok
    /\ ~ret.info.isDir
    /\ ret.info.size = Len(store[k].content)
    /\ ret.info.modTime = store[k].modTime
    /\ "ListObjects" \notin ret.reqs

\* C5 as stated: an object at exactly K makes Stat succeed as a non-directory
\* with the object's size and modification time, without a listing request.
C5_Original == (StatReturned /\ ObjectExists(ret.key)) => ReportsObject(ret.key)

\* C5 amended: the same, provided the metadata lookup itself does not fail
\* (no transport error, context not cancelled).
C5_ObjectMetadata ==
    (StatReturned /\ ObjectExists(ret.key) /\ ~ret.transportErr /\ ~ret.cancelled)
        => ReportsObject(ret.key)

\* Stat reported a zero-byte object that has objects under it.
C5_Witness ==
    /\ StatReturned /\ ObjectExists(ret.key) /\ HasChild(ret.key)
    /\ ret.ok /\ ~ret.info.isDir /\ ret.info.size = 0
    /\ ret.reqs = {"StatObject"}

\* C11: when Stat(path) returns, with a result or an error, the handle it
\* opened has been closed: its context is cancelled.
C11_StatPathReleases ==
    (ret.op = "Stat" /\ ret.how = "path") => (h.state = "released" /\ h.cancelled)

\* The entries of the store a Stat call received from its probe listing.
ProbeEntries == SelectSeq(ret.delivered, LAMBDA e : e.err = Nil)

\* C16: a Stat call receives at most 2 entries from its probe listing,
\* however many objects the bucket holds under the prefix.
C16_ProbeBounded ==
    ret.op = "Stat" => Len(ProbeEntries) <= 2

\* The last call was a Stat that made the probe listing.
Probed == ret.op = "Stat" /\ "ListObjects" \in ret.reqs

ProbeFailed == \E i \in 1..Len(ret.delivered) : ret.delivered[i].err # Nil

\* C17: when the metadata lookup has failed and the probe listing delivers an
\* error entry, Stat returns an error and no FileInfo, whatever other entries
\* the listing delivered; when the probe listing delivers no error entry,
\* Stat returns no error.
C17_ProbeErrorFailsStat ==
    Probed =>
        /\ ProbeFailed => (~ret.ok /\ ret.err # Nil /\ ret.info = NoInfo)
        /\ ~ProbeFailed => (ret.ok /\ ret.err = Nil)

\* The probe listing delivered an entry under the prefix and then an error.
C17_Witness ==
    /\ Probed
    /\ Len(ret.delivered) >= 2
    /\ ret.delivered[1].err = Nil
    /\ ret.delivered[1].key # ListPrefix(ret.key)
    /\ ProbeFailed
    /\ ~ret.ok

\* The prefix under which the parent of a key lists it.
ParentPrefix(k) == IF LastIndex(k) < 0 THEN <<>> ELSE SubSeq(k, 1, LastIndex(k) + 1)

\* Readdir on the parent of K returns an entry for K that is a directory.
ListedAsDir(k) ==
    LET l == ListObjects(store, TheBucket, ParentPrefix(k), 0) IN
    \E i \in 1..Len(l) :
        /\ ~SkipEntry(l[i], ParentPrefix(k))
        /\ l[i].key = k \o <<Sep>>
        /\ HasSuffix(l[i].key, <<Sep>>)

\* C18: with no transport error, Stat reports a directory when the key ends
\* in the separator, or when no object is at the key and some object's key
\* has key + "/" as a prefix; and it reports a directory for every key that
\* Readdir on its parent returns as a directory entry.
C18_DirectoryRule ==
    (StatReturned /\ NoTransportError) =>
        /\ (\/ HasSuffix(ret.key, <<Sep>>)
            \/ /\ ~ObjectExists(ret.key)
               /\ \E x \in DOMAIN store : HasPrefix(x, ret.key \o <<Sep>>))
           => (ret.ok /\ ret.info.isDir)
        /\ (ret.key # <<>> /\ ListedAsDir(ret.key)) => (ret.ok /\ ret.info.isDir)

(***************************************************************************)
(* Claims about Close and Readdir                                          *)
(***************************************************************************)

\* C6: Close cancels the handle's context before it drains, it returns (under
\* fair scheduling of the producer and of the caller inside Close) whatever
\* the handle holds, and when it has returned the handle holds no listing,
\* its stream if any is closed, and the producer of the listing it held has
\* finished, with nothing left in the channel.
C6_CloseReturns ==
    /\ [](pc.at = "CloseDrain" => h.cancelled)
    /\ [](ret.op = "Close" =>
            /\ h.cancelled
            /\ ~h.list
            /\ h.object.open => h.object.closed
            /\ ch.started => (ch.prod = "done" /\ ch.buf = <<>>))
    /\ (pc.at = "CloseDrain") ~> (ret.op = "Close")

\* Close has returned on a handle with a stream that was read from and a
\* listing that was only partly consumed: the producer was stopped with
\* entries it never sent.
C6_Witness ==
    /\ ret.op = "Close"
    /\ h.object.open
    /\ h.object.started
    /\ ch.started
    /\ ch.prod = "done"
    /\ Len(ch.rest) >= 1
    /\ Len(ch.rest) < Len(ch.all)

ReaddirReturned == ret.op = "Readdir"

Remaining == SubSeq(ch.all, ret.from + 1, Len(ch.all))

NonSkipped(entries, prefix) ==
    SelectSeq(entries, LAMBDA e : ~(e.key = prefix \/ e.key \o <<Sep>> = prefix))

\* The last non-empty segment of a key (empty if it has none).
LastSegment(key) ==
    LET segs == SelectSeq(Segments(key), LAMBDA x : x # <<>>) IN
    IF segs = <<>> THEN <<>> ELSE segs[Len(segs)]

\* C8: when the listing delivers no error and fewer than n entries other than
\* the marker, Readdir(n) returns exactly those entries, once each and in the
\* listing's order, each a directory iff its key ends in "/" and named by the
\* last non-empty segment of its key.
C8_ReaddirEntries ==
    (/\ ReaddirReturned
     /\ \A i \in 1..Len(ch.all) : ch.all[i].err = Nil
     /\ Len(NonSkipped(Remaining, ListPrefix(ret.key))) < ret.n)
    => LET want == NonSkipped(Remaining, ListPrefix(ret.key)) IN
       /\ ret.ok
       /\ Len(ret.files) = Len(want)
       /\ \A i \in 1..Len(want) :
            /\ ret.files[i].key = want[i].key
            /\ ret.files[i].isDir = HasSuffix(want[i].key, <<Sep>>)
            /\ Name(ret.files[i]) = LastSegment(want[i].key)

\* Readdir returned a file and a directory from one listing.
C8_Witness ==
    /\ ReaddirReturned
    /\ ret.ok
    /\ Len(ret.files) = 2
    /\ Len(ret.files) < ret.n
    /\ ~ret.files[1].isDir
    /\ ret.files[2].isDir

\* C10: a Readdir call that receives an error entry returns the error and no
\* entries, however many entries it had collected.
C10_ErrorAbortsReaddir ==
    (ReaddirReturned /\ ret.sawErr) => (~ret.ok /\ ret.err # Nil /\ ret.files = <<>>)

\* Readdir met the error after it had collected an entry.
C10_Witness ==
    /\ ReaddirReturned
    /\ ret.sawErr
    /\ ret.collected >= 1

\* The entries of the listing that Readdir calls have received so far.
Consumed == SubSeq(ch.all, 1, Len(ch.all) - Len(ch.rest) - Len(ch.buf))

\* The handle is open with no call in progress, its listing was started and
\* neither the listing nor a Readdir call has failed.
PagingCleanly ==
    /\ Idle
    /\ h.state = "open"
    /\ ch.started
    /\ ~hist.dirErr
    /\ \A i \in 1..Len(ch.all) : ch.all[i].err = Nil

\* C14: a Readdir call returns at most n entries (1000 for n <= 0); a handle
\* starts one listing, at its first Readdir, and no other; without errors
\* the results of the successive calls, put together, are the entries of the
\* store's listing received so far without the prefix marker, in order, none
\* lost or repeated; a call made after the whole listing was received
\* returns nothing.
C14_ReaddirPaginates ==
    /\ (ReaddirReturned /\ ret.ok) =>
          Len(ret.files) <= (IF ret.asked <= 0 THEN DefaultN ELSE ret.asked)
    /\ hist.lists <= 1
    /\ (pc.at = "Readdir" \/ ReaddirReturned) => (hist.lists = 1 /\ ch.started)
    /\ PagingCleanly =>
          LET want == NonSkipped(Consumed, ListPrefix(h.key)) IN
          /\ ch.all = ListObjects(store, h.bucket, ListPrefix(h.key), 0)
          /\ Len(hist.listed) = Len(want)
          /\ \A i \in 1..Len(want) :
                /\ hist.listed[i].key = want[i].key
                /\ hist.listed[i].size = want[i].size
    /\ (PagingCleanly /\ ReaddirReturned /\ ret.from = Len(ch.all)) =>
          (ret.ok /\ ret.files = <<>>)

\* Two Readdir calls have each returned one entry of a two-entry listing.
C14_Witness ==
    /\ PagingCleanly
    /\ ReaddirReturned
    /\ ret.ok
    /\ ret.from >= 1
    /\ Len(ret.files) = 1
    /\ Len(hist.listed) = 2
    /\ hist.listed[1].key # hist.listed[2].key

(***************************************************************************)
(* Claims about the resources of a handle                                  *)
(***************************************************************************)
\* C15: a handle makes at most one read-stream and at most one listing of
\* Readdir; while a Stat call runs, at most one listing of the handle has a
\* producer that has not finished (the probe of Stat counted); and a Read
\* that found no stream made it with Seek(0, start), that is without a range.
C15_OneStreamOneListing ==
    /\ hist.gets <= 1
    /\ hist.lists <= 1
    /\ ret.op = "Stat" => ret.lists <= 1
    /\ (hist.gets = 1 /\ ~hist.first.explicit) =>
          (h.object.open /\ h.object.opts = FullRange
           /\ hist.first.offset = 0 /\ hist.first.whence = SeekStart)

\* The listing Readdir started has been given up by the handle.
ListingGivenUp == ch.started /\ ~h.list

\* The channel of the Readdir listing is closed and empty: its producer has
\* finished and nothing it sent is left unreceived.
ListingDrained == ch.prod = "done" /\ ch.buf = <<>>

\* C21: when Stat returns, with a result or an error, the producer of its
\* probe listing has finished; a Readdir that returned (an error, n entries,
\* or the end of the listing) leaves the listing held by the handle; and the
\* handle gives the listing up only in Close, with its context cancelled and
\* the channel drained.
C21_ListingsDrained ==
    /\ ret.op = "Stat" => ret.probeDone
    /\ ret.op = "Readdir" => h.list
    /\ ListingGivenUp => (h.state = "closed" /\ h.cancelled /\ ListingDrained)

\* A Readdir on the handle returned an error and left entries unreceived;
\* a later Stat on the same handle made a probe listing of two entries and
\* returned after the probe's channel was closed; the listing of Readdir is
\* still held.
C21_Witness ==
    /\ ret.op = "Stat"
    /\ ret.how = "handle"
    /\ "ListObjects" \in ret.reqs
    /\ ret.received = 2
    /\ ret.probeDone
    /\ hist.dirErr
    /\ h.list
    /\ ~ListingDrained

\* The key begins or ends with the separator.
OuterSeparator(key) == HasPrefix(key, <<Sep>>) \/ HasSuffix(key, <<Sep>>)

\* C22: the key of a handle made by Open, in either variant and for every
\* name, neither begins nor ends with the separator; and every Stat on such
\* a handle makes the metadata lookup of the exact key.
C22_KeyWithoutOuterSeparator ==
    /\ h.state # "none" => ~OuterSeparator(h.key)
    /\ ret.op = "Stat" => (~OuterSeparator(ret.key) /\ "StatObject" \in ret.reqs)

\* Open in the bucket-from-first-segment variant on the name "a//", which
\* without Clean would be cut into bucket "a" and key "/".
C22_Witness ==
    /\ ret.op = "Open"
    /\ ret.path = <<"a", Sep, Sep>>
    /\ h.variant = "FS3"
    /\ h.bucket = <<"a">>
    /\ h.key = <<>>

\* C19: OpenFile succeeds and makes no request, no stream and no listing;
\* a get-object is made only by a Seek or Read call, so never on a handle
\* that is only Stat'd, listed and closed; a list request is made only by a
\* Stat or Readdir call, so never on a handle that is only read, sought and
\* closed.
C19_LazyRequests ==
    [][/\ (h.state = "none" /\ h'.state = "open") =>
             (ret'.ok /\ hist' = hist /\ ~h'.object.open /\ ~h'.list /\ ~ch'.started)
       /\ (hist'.gets # hist.gets \/ (~h.object.open /\ h'.object.open)) =>
             ret'.op \in {"Seek", "Read"}
       /\ (hist'.lists # hist.lists \/ "ListObjects" \in (hist'.reqs \ hist.reqs)
             \/ (~ch.started /\ ch'.started)) =>
             (ret'.op = "Stat" \/ pc'.at = "Readdir")
       /\ ret'.op \in {"Seek", "Read"} => (hist'.lists = hist.lists /\ hist'.reqs = hist.reqs)
       /\ (ret'.op = "Stat" \/ pc'.at = "Readdir" \/ pc.at = "Readdir"
             \/ pc'.at = "CloseDrain" \/ ret'.op = "Close") =>
             hist'.gets = hist.gets]_vars

\* A handle was Stat'd, listed and closed without any get-object.
C19_Witness ==
    /\ h.state = "closed"
    /\ hist.lists = 1
    /\ "StatObject" \in hist.reqs
    /\ hist.gets = 0
    /\ ~h.object.open

(***************************************************************************)
(* Claims about Seek and Read                                              *)
(***************************************************************************)
\* The last call was a Read, on a stream that a Seek with offset N opened on
\* the object of the bucket, with no Seek after it and no failed request.
ReadAfterSeek ==
    /\ ret.op = "Read"
    /\ hist.first.explicit
    /\ ~hist.delegated
    /\ ~hist.faulted
    /\ h.bucket = TheBucket
    /\ h.key \in DOMAIN store

\* The Reads so far have delivered the bytes of the content from offset N
\* on, in order, and reported end-of-stream exactly when they reached the end.
StreamsFrom(N) ==
    LET content == store[h.key].content
        S == Len(content)
    IN  /\ ret.ok
        /\ N + Len(hist.bytes) <= S
        /\ hist.bytes = SubSeq(content, N + 1, N + Len(hist.bytes))
        /\ hist.eof <=> (N + Len(hist.bytes) = S)

\* What C20 states besides the content of the stream of Seek(N, start):
\* Seek(0, whence) opens the stream without a range, on the whole object; a
\* Seek that opens the stream returns the offset it was given; a handle calls
\* GetObject once, a later Seek goes to the stream.
SeekOpensOnce ==
    /\ (hist.first.explicit /\ hist.first.offset = 0 /\ h.object.open) =>
          h.object.opts = FullRange
    /\ (ReadAfterSeek /\ hist.first.offset = 0) => StreamsFrom(0)
    /\ (ret.op = "Seek" /\ ret.ok /\ ~hist.delegated) =>
          (h.object.open /\ hist.first.explicit /\ ret.pos = hist.first.offset)
    /\ hist.gets <= 1
    /\ h.object.open <=> (hist.gets = 1)
    /\ hist.delegated => hist.gets = 1

\* C20 as stated: the above, and for every N > 0 the stream Seek(N, start)
\* opens holds the bytes of the object from offset N to the end.
C20_Original ==
    /\ SeekOpensOnce
    /\ (ReadAfterSeek /\ hist.first.whence = SeekStart /\ hist.first.offset > 0) =>
          StreamsFrom(hist.first.offset)

\* C20 amended: the same for every N with 0 < N < S, S the size of the object.
C20_SeekStartReadsRest ==
    /\ SeekOpensOnce
    /\ (ReadAfterSeek /\ hist.first.whence = SeekStart /\ hist.first.offset > 0
          /\ hist.first.offset < Len(store[h.key].content)) =>
          StreamsFrom(hist.first.offset)

\* Seek(1, start), then Reads to the end of a three-byte object.
C20_Witness ==
    /\ ReadAfterSeek
    /\ hist.first.whence = SeekStart
    /\ hist.first.offset = 1
    /\ Len(store[h.key].content) = 3
    /\ hist.eof
    /\ Len(hist.bytes) = 2
    /\ ret.n = 1

\* The handle's stream was opened by Seek(N, end) with N > 0 on an object
\* of at least N bytes, no Seek followed, and the Reads reached end-of-stream.
TailRead ==
    /\ hist.first.explicit
    /\ hist.first.whence = SeekEnd
    /\ hist.first.offset > 0
    /\ ~hist.delegated
    /\ hist.eof
    /\ h.bucket = TheBucket
    /\ h.key \in DOMAIN store
    /\ hist.first.offset <= Len(store[h.key].content)

\* C9: on a handle without a stream, Seek(N, end) with 0 < N <= S followed by
\* Reads until end-of-stream yields exactly the last N bytes of the content.
C9_SeekEndReadsTail ==
    TailRead =>
        LET content == store[h.key].content
            S == Len(content)
            N == hist.first.offset
        IN  hist.bytes = SubSeq(content, S - N + 1, S)

\* The last two bytes of a three-byte object, read in more than one Read.
C9_Witness ==
    /\ TailRead
    /\ hist.first.offset = 2
    /\ Len(store[h.key].content) = 3
    /\ ret.op = "Read"
    /\ ret.n = 1
    /\ Len(hist.bytes) = 2

====
